---- MODULE Spec2Model ----
(***************************************************************************)
(* A model of the FlexFringe python wrapper (src/flexfringe/_flexfringe.py)*)
(* : the FlexFringe instance (tracefile, kwargs), the fit / predict calls  *)
(* that shell out to the flexfringe binary, and the parser of the          *)
(* semicolon-delimited result file.                                        *)
(*                                                                         *)
(* Text is modelled as a sequence of chunks.  A chunk is either a single   *)
(* punctuation character (" ", "\"", "[", "]", ",") or an atomic run of    *)
(* other characters ("pos", "0.1", ".ff", "abbadingo trace").  The string  *)
(* operations of the code (strip, split, concatenation) are modelled on    *)
(* these sequences.                                                        *)
(*                                                                         *)
(* The overloads of fit and predict that take a DataFrame write it to a    *)
(* temporary csv file and call the path overloads modelled here.  Both     *)
(* path overloads of fit (lines 83-110 and 112-142) are modelled.  What    *)
(* the flexfringe binary and pandas.read_csv do is the environment: the    *)
(* binary writes its output files or not and exits with any code;          *)
(* read_csv delivers a column as numbers when every field of it is one.    *)
(***************************************************************************)
EXTENDS Integers, Sequences, FiniteSets, TLC

(***************************************************************************)
(* Bounds of the model.                                                    *)
(***************************************************************************)
\* the largest number of data rows of a result file
MaxRows == 2
\* the largest number k of symbols t1..tk of an abbadingo trace field
MaxSyms == 2
\* the largest number of repeated brackets around a sequence field
MaxBrackets == 2
\* the largest index of the combined trace column in the header of a file
MaxPos == 2

(***************************************************************************)
(* Python string operations.                                               *)
(***************************************************************************)
\* the characters str.strip() removes when called without arguments
Whitespace == {" ", "\t", "\n"}

RECURSIVE LStrip(_, _)
\* str.lstrip(chars): drop every leading chunk that is in chars
LStrip(s, chars) ==
    IF s = <<>> \/ s[1] \notin chars THEN s ELSE LStrip(Tail(s), chars)

RECURSIVE RStrip(_, _)
\* str.rstrip(chars): drop every trailing chunk that is in chars
RStrip(s, chars) ==
    IF s = <<>> \/ s[Len(s)] \notin chars THEN s
    ELSE RStrip(SubSeq(s, 1, Len(s) - 1), chars)

\* str.strip(chars): python removes ALL leading and trailing characters of
\* the set, not one
Strip(s, chars) == RStrip(LStrip(s, chars), chars)

RECURSIVE Split(_, _)
\* str.split(sep): the parts between the separators; never an empty list
Split(s, sep) ==
    IF \A i \in 1..Len(s) : s[i] # sep THEN <<s>>
    ELSE LET i == CHOOSE j \in 1..Len(s) :
                      s[j] = sep /\ \A h \in 1..(j - 1) : s[h] # sep
         IN  <<SubSeq(s, 1, i - 1)>> \o Split(SubSeq(s, i + 1, Len(s)), sep)

RECURSIVE Join(_, _)
\* sep.join(parts)
Join(parts, sep) ==
    IF parts = <<>> THEN <<>>
    ELSE IF Len(parts) = 1 THEN parts[1]
    ELSE parts[1] \o <<sep>> \o Join(Tail(parts), sep)

(***************************************************************************)
(* Numeric literals.  A float is represented by its value in tenths.       *)
(***************************************************************************)
NumeralValue ==
    ("0" :> 0) @@ ("1" :> 10) @@ ("2" :> 20) @@
    ("0.1" :> 1) @@ ("0.2" :> 2) @@ ("0.3" :> 3) @@ ("0.6" :> 6)

Numerals == DOMAIN NumeralValue

\* float(val) succeeds: python accepts surrounding whitespace around the literal
IsFloat(val) ==
    LET t == Strip(val, Whitespace) IN Len(t) = 1 /\ t[1] \in Numerals

\* float(val)
Float(val) == NumeralValue[Strip(val, Whitespace)[1]]

(***************************************************************************)
(* Cells of a DataFrame.                                                   *)
(***************************************************************************)
StrCell(s) == [k |-> "str", v |-> s]
NumCell(n) == [k |-> "num", v |-> n]
NaNCell == [k |-> "nan", v |-> 0]
\* a python list of str
StrListCell(l) == [k |-> "strlist", v |-> l]
\* a python list of float
FloatListCell(l) == [k |-> "floatlist", v |-> l]

(***************************************************************************)
(* pandas.read_csv: a column all of whose fields are numbers (or empty)    *)
(* is delivered as numbers, any other column as text; an empty field is    *)
(* NaN.  A file without data rows has text (object) columns with no cell.  *)
(***************************************************************************)
IsNA(field) == field = <<>>

InferColumn(fields) ==
    IF \A r \in DOMAIN fields : IsNA(fields[r]) \/ IsFloat(fields[r])
    THEN [r \in DOMAIN fields |->
            IF IsNA(fields[r]) THEN NaNCell ELSE NumCell(Float(fields[r]))]
    ELSE [r \in DOMAIN fields |->
            IF IsNA(fields[r]) THEN NaNCell ELSE StrCell(fields[r])]

\* df = pd.read_csv(path, delimiter=";"): columns are the header fields as
\* written, data[i] is the i-th column
ReadCsv(file) ==
    [columns |-> file.header,
     data |-> [i \in 1..Len(file.header) |->
                 InferColumn([r \in 1..Len(file.rows) |-> file.rows[r][i]])]]

(***************************************************************************)
(* DataFrame operations.                                                   *)
(***************************************************************************)
HasColumn(df, name) == \E i \in 1..Len(df.columns) : df.columns[i] = name

ColumnIndex(df, name) == CHOOSE i \in 1..Len(df.columns) : df.columns[i] = name

\* df[name]
Column(df, name) == df.data[ColumnIndex(df, name)]

RemoveAt(s, i) == SubSeq(s, 1, i - 1) \o SubSeq(s, i + 1, Len(s))

InsertAt(s, loc, x) == SubSeq(s, 1, loc) \o <<x>> \o SubSeq(s, loc + 1, Len(s))

\* df.drop(columns=[name])
Drop(df, name) ==
    LET i == ColumnIndex(df, name)
    IN  [columns |-> RemoveAt(df.columns, i), data |-> RemoveAt(df.data, i)]

\* df.insert(loc, name, values): loc is 0-based, the new column gets index loc
Insert(df, loc, name, values) ==
    [columns |-> InsertAt(df.columns, loc, name),
     data |-> InsertAt(df.data, loc, values)]

\* df[name] = values, for a column that exists
SetColumn(df, name, values) ==
    [df EXCEPT !.data[ColumnIndex(df, name)] = values]

(***************************************************************************)
(* FlexFringe._parse_flexfringe_result                                     *)
(***************************************************************************)
TraceCol == <<"abbadingo trace">>
TypeCol == <<"abbadingo type">>
LengthCol == <<"abbadingo length">>
StateCol == <<"state sequence">>
ScoreCol == <<"score sequence">>
SumCol == <<"sum scores">>
MeanCol == <<"mean scores">>
MinCol == <<"min score">>

\* the value of a call that raised: the python exception class, and no table
NoTable == [columns |-> <<>>, data |-> <<>>]
Raise(exc) == [kind |-> exc, table |-> NoTable]
Return(df) == [kind |-> "ok", table |-> df]

\* df.columns = [column.strip() for column in df.columns]
StripColumns(df) ==
    [df EXCEPT !.columns = [i \in DOMAIN @ |-> Strip(@[i], Whitespace)]]

\* lambda x: x.strip().strip("\"")
AbdClean(x) == Strip(Strip(x, Whitespace), {"\""})

\* parts = abd_trace.split(" ")
abd_parts(x) == Split(x, " ")

\* abd_type.append(parts[0])
abd_type(parts) == parts[1]

\* abd_len.append(parts[1])
abd_len(parts) == parts[2]

\* a slip of the slice: parts[1:]
abd_trc_from_length(parts) == SubSeq(parts, 2, Len(parts))

\* abd_trc.append(parts[2:])
abd_trc(parts) == SubSeq(parts, 3, Len(parts))

\* the three df.insert calls after the drop: the indices are literals of the
\* code, not the index the dropped column had
InsertDerived(df, types, lens, trcs) ==
    Insert(Insert(Insert(df, 1, TypeCol, types), 2, LengthCol, lens),
           3, TraceCol, trcs)

\* removing one leading "[" and one trailing "]" only
StripBrackets_OnePair(x) ==
    LET t == Strip(x, Whitespace)
        a == IF t # <<>> /\ t[1] = "[" THEN Tail(t) ELSE t
    IN  IF a # <<>> /\ a[Len(a)] = "]" THEN SubSeq(a, 1, Len(a) - 1) ELSE a

\* x.strip().strip("[").strip("]")
StripBrackets(x) == Strip(Strip(Strip(x, Whitespace), {"["}), {"]"})

\* x.strip().strip("[").strip("]").split(",")
SequenceElements(x) == Split(StripBrackets(x), ",")

\* an apply that fails on a column without cells
AllStr_NonEmpty(cells) ==
    cells # <<>> /\ \A r \in DOMAIN cells : cells[r].k = "str"

\* Series.apply of a lambda that calls x.strip(): every cell must be a str
AllStr(cells) == \A r \in DOMAIN cells : cells[r].k = "str"

\* Series.astype(float) succeeds: numbers and NaN convert, text must be a literal
CanAsFloat(cells) ==
    \A r \in DOMAIN cells : cells[r].k = "str" => IsFloat(cells[r].v)

\* Series.astype(float)
AsFloat(cells) ==
    [r \in DOMAIN cells |->
        IF cells[r].k = "str" THEN NumCell(Float(cells[r].v)) ELSE cells[r]]

\* lines 235-240: the scalar score columns, then return df
ParseScalars(df) ==
    IF ~HasColumn(df, SumCol) THEN Raise("KeyError")
    ELSE IF ~CanAsFloat(Column(df, SumCol)) THEN Raise("ValueError")
    ELSE LET d1 == SetColumn(df, SumCol, AsFloat(Column(df, SumCol)))
    IN
    IF ~HasColumn(d1, MeanCol) THEN Raise("KeyError")
    ELSE IF ~CanAsFloat(Column(d1, MeanCol)) THEN Raise("ValueError")
    ELSE LET d2 == SetColumn(d1, MeanCol, AsFloat(Column(d1, MeanCol)))
    IN
    IF ~HasColumn(d2, MinCol) THEN Raise("KeyError")
    ELSE IF ~CanAsFloat(Column(d2, MinCol)) THEN Raise("ValueError")
    ELSE Return(SetColumn(d2, MinCol, AsFloat(Column(d2, MinCol))))

\* lines 227-233: the state sequence and the score sequence
ParseSequences(df) ==
    IF ~HasColumn(df, StateCol) THEN Raise("KeyError")
    ELSE IF ~AllStr(Column(df, StateCol)) THEN Raise("AttributeError")
    ELSE LET st == Column(df, StateCol)
             d1 == SetColumn(df, StateCol,
                     [r \in DOMAIN st |-> StrListCell(SequenceElements(st[r].v))])
    IN
    IF ~HasColumn(d1, ScoreCol) THEN Raise("KeyError")
    ELSE IF ~AllStr(Column(d1, ScoreCol)) THEN Raise("AttributeError")
    ELSE LET sc == Column(d1, ScoreCol)
             el == [r \in DOMAIN sc |-> SequenceElements(sc[r].v)]
    IN
    IF \E r \in DOMAIN el : \E i \in 1..Len(el[r]) : ~IsFloat(el[r][i])
    THEN Raise("ValueError")
    ELSE ParseScalars(SetColumn(d1, ScoreCol,
             [r \in DOMAIN el |->
                 FloatListCell([i \in 1..Len(el[r]) |-> Float(el[r][i])])]))

\* lines 206-240, on the table read_csv delivered
ParseTable(df0) ==
    LET df == StripColumns(df0)
    IN
    IF ~HasColumn(df, TraceCol) THEN Raise("KeyError")
    ELSE IF ~AllStr(Column(df, TraceCol)) THEN Raise("AttributeError")
    ELSE LET raw == Column(df, TraceCol)
             parts == [r \in DOMAIN raw |-> abd_parts(AbdClean(raw[r].v))]
    IN
    IF \E r \in DOMAIN parts : Len(parts[r]) < 2 THEN Raise("IndexError")
    ELSE ParseSequences(InsertDerived(Drop(df, TraceCol),
             [r \in DOMAIN parts |-> StrCell(abd_type(parts[r]))],
             [r \in DOMAIN parts |-> StrCell(abd_len(parts[r]))],
             [r \in DOMAIN parts |-> StrListCell(abd_trc(parts[r]))]))

\* lines 205-240 on the content of the file at result_out
_parse_flexfringe_result(file) == ParseTable(ReadCsv(file))

(***************************************************************************)
(* Result files the flexfringe binary may leave behind.  A row is built    *)
(* from the well-formed row of the spec's scenario ("pos 2 a b",           *)
(* [0,1], [0.1,0.2], 0.6, 0.2, 0.1; fields follow "; " and so start with a *)
(* blank) with one field replaced.                                         *)
(***************************************************************************)
Symbols == {"a", "b"}

\* the symbol sequences t1..tk, k = 0..MaxSyms
SymSeqs == UNION {[1..k -> {<<x>> : x \in Symbols}] : k \in 0..MaxSyms}

\* the token sequences T N t1..tk
TokenSeqs == {<<<<"pos">>, <<"2">>>> \o syms : syms \in SymSeqs}

TraceFields ==
    {Join(toks, " ") : toks \in TokenSeqs}
    \cup {<<" ">> \o Join(toks, " ") : toks \in TokenSeqs}
    \cup {<<" ", "\"">> \o Join(toks, " ") \o <<"\"">> : toks \in TokenSeqs}
    \cup {<<"pos">>, <<" ", "\"", "pos", "\"">>, <<"1">>, <<>>,
          <<"pos", " ", " ", "a">>}

RECURSIVE Repeat(_, _)
Repeat(c, n) == IF n = 0 THEN <<>> ELSE <<c>> \o Repeat(c, n - 1)

StateBodies == {<<"0", ",", "1">>, <<"0">>}

StateFields ==
    {<<" ">> \o Repeat("[", i) \o body \o Repeat("]", j) :
        i \in 0..MaxBrackets, j \in 0..MaxBrackets, body \in StateBodies}
    \cup {<<"]", "0", ",", "1", "[">>, <<"[", "0", "]", ",", "[", "1", "]">>,
          <<"0">>, <<>>}

ScoreBodies == {<<"0.1", ",", "0.2">>, <<"0.1", ",", "x", ",", "0.3">>, <<>>}

ScoreFields ==
    {<<" ">> \o Repeat("[", i) \o body \o Repeat("]", i) :
        i \in 0..MaxBrackets, body \in ScoreBodies}
    \cup {<<"]", "0.1", "[">>, <<"[", "0.1", ",", " ", "0.2", "]">>, <<"0.1">>}

ScalarFields == {<<" ", "0.6">>, <<"x">>, <<>>}

BaseRow ==
    [nr |-> <<"0">>,
     trace |-> <<" ", "pos", " ", "2", " ", "a", " ", "b">>,
     state |-> <<" ", "[", "0", ",", "1", "]">>,
     score |-> <<" ", "[", "0.1", ",", "0.2", "]">>,
     sum |-> <<" ", "0.6">>,
     mean |-> <<" ", "0.2">>,
     min |-> <<" ", "0.1">>]

BadScoreRow == [BaseRow EXCEPT !.score = <<" ", "[", "0.1", ",", "x", ",", "0.3", "]">>]

ShortTraceRow == [BaseRow EXCEPT !.trace = <<" ", "pos">>]

RowSet ==
    {[BaseRow EXCEPT !.trace = f] : f \in TraceFields}
    \cup {[BaseRow EXCEPT !.state = f] : f \in StateFields}
    \cup {[BaseRow EXCEPT !.score = f] : f \in ScoreFields}
    \cup {[BaseRow EXCEPT !.sum = f] : f \in ScalarFields}
    \cup {[BaseRow EXCEPT !.mean = f] : f \in ScalarFields}
    \cup {[BaseRow EXCEPT !.min = f] : f \in ScalarFields}

CommonRows == {BaseRow, BadScoreRow, ShortTraceRow}

\* the rows of a file: at most MaxRows, at most one of them outside CommonRows
RowSeqs ==
    LET common(n) == UNION {[1..k -> CommonRows] : k \in 0..n}
    IN  common(MaxRows)
        \cup UNION {{InsertAt(rest, i, r) : i \in 0..Len(rest), r \in RowSet} :
                       rest \in common(MaxRows - 1)}

\* the header of the file flexfringe writes, and the same columns with the
\* combined trace column at another index
OtherCols == <<StateCol, ScoreCol, SumCol, MeanCol, MinCol>>
NrCol == <<"row nr">>

Pad(name) == <<" ">> \o name \o <<" ">>

Headers ==
    LET cols == {InsertAt(others, p, TraceCol) :
                    others \in {OtherCols, <<NrCol>> \o OtherCols},
                    p \in 0..MaxPos}
    IN  cols \cup {[i \in 1..Len(h) |-> Pad(h[i])] : h \in cols}
        \cup {<<NrCol>> \o OtherCols}

FieldOf(row, name) ==
    CASE name = TraceCol -> row.trace
      [] name = StateCol -> row.state
      [] name = ScoreCol -> row.score
      [] name = SumCol -> row.sum
      [] name = MeanCol -> row.mean
      [] name = MinCol -> row.min
      [] OTHER -> row.nr

\* the file with header h and the rows rs, every row with one field per column
MkFile(h, rs) ==
    [header |-> h,
     rows |-> [r \in 1..Len(rs) |->
                 [i \in 1..Len(h) |-> FieldOf(rs[r], Strip(h[i], Whitespace))]]]

Files == {MkFile(h, rs) : h \in Headers, rs \in RowSeqs}

(***************************************************************************)
(* The FlexFringe instance and its environment.                            *)
(***************************************************************************)
VARIABLES
    tracefile,  \* self.tracefile: None, or the path fit / predict recorded
    resultfile, \* self.resultfile
    kwargs,     \* self.kwargs: the constructor's keyword arguments
    fs,         \* the file system: what is at each path
    csv,        \* the content of each result file
    pc,         \* where the running call is; "idle" between calls
    call,       \* the running (or last) call
    outcome     \* how the last call ended, and the table it returned

vars == <<tracefile, resultfile, kwargs, fs, csv, pc, call, outcome>>

\* None; no path of the model is this sequence
None == <<"None">>

DotExt == <<".ff", ".final.dot">>
JsonExt == <<".ff", ".final.json">>
ResultExt == <<".ff", ".final.json", ".result.csv">>

\* the trace files the caller passes
TracePaths == {<<"a.csv">>, <<"b.csv">>}

\* the file the caller asks predictions for
PredictPaths == {<<"test.csv">>}

\* the apta files the caller passes to the two-argument predict
AptaFiles == {<<"a.csv">> \o JsonExt, <<"b.csv", ".ff", ".v2", ".ff", ".json">>}

\* the model file of fit(tracefile, output_file=, output_format=)
OutputFiles == {None, <<"out">>}
ModelPath(output_file, output_format) == output_file \o <<".final.">> \o output_format

ResultPaths == {t \o ResultExt : t \in TracePaths}

FsPaths ==
    {t \o e : t \in TracePaths, e \in {DotExt, JsonExt, ResultExt}}
    \cup {ModelPath(<<"out">>, <<"dot">>)}

NoFile == [header |-> <<>>, rows |-> <<>>]

\* the result files the binary writes in the life-cycle specification
SmallFiles ==
    {MkFile(<<NrCol, TraceCol>> \o OtherCols, rs) :
        rs \in {<<>>, <<BaseRow>>, <<BaseRow, BadScoreRow>>, <<ShortTraceRow>>}}

(***************************************************************************)
(* Keyword arguments: a dict is the sequence of its <<key, value>> items   *)
(* in insertion order, keys unique.                                        *)
(***************************************************************************)
CtorKwargs == {<<>>, <<<<"ini", "x.ini">>>>, <<<<"ini", "x.ini">>, <<"mode", "batch">>>>}

CallKwargs == {<<>>, <<<<"ini", "y.ini">>>>, <<<<"extra", "1">>, <<"mode", "stream">>>>}

Keys(d) == {d[i][1] : i \in 1..Len(d)}

\* d[k]
DictGet(d, k) == d[CHOOSE i \in 1..Len(d) : d[i][1] = k][2]

\* d[k] = v
DictSet(d, k, v) ==
    IF k \in Keys(d)
    THEN [i \in 1..Len(d) |-> IF d[i][1] = k THEN <<k, v>> ELSE d[i]]
    ELSE Append(d, <<k, v>>)

RECURSIVE Update(_, _)
\* for k, v in kw.items(): d[k] = v
Update(d, kw) ==
    IF kw = <<>> THEN d ELSE Update(DictSet(d, kw[1][1], kw[1][2]), Tail(kw))

\* the merge the other way round: the constructor's value wins
all_kwargs_ctor_wins(self_kwargs, call_kwargs) == Update(call_kwargs, self_kwargs)

\* all_kwargs = dict(self.kwargs); for k, v in kwargs.items(): all_kwargs[k] = v
all_kwargs(self_kwargs, call_kwargs) == Update(self_kwargs, call_kwargs)

\* f"--{key}={kwargs[key]}"
Flag(key, value) == <<"--", key, "=", value>>

\* FlexFringe._format_kwargs
_format_kwargs(d) == [i \in 1..Len(d) |-> Flag(d[i][1], d[i][2])]

(***************************************************************************)
(* FlexFringe._get_out_file                                                *)
(***************************************************************************)
\* the check without is_file()
NotValidFile_ExistsOnly(status) == status = "missing"

\* not tmp.exists() or not tmp.is_file()
NotValidFile(status) == status = "missing" \/ status # "file"

Status(path) == IF path \in DOMAIN fs THEN fs[path] ELSE "missing"

\* the exception _get_out_file raises, or "ok"
_get_out_file_exc(extension) ==
    IF tracefile = None THEN "RuntimeError"
    ELSE IF NotValidFile(Status(tracefile \o extension)) THEN "RuntimeError"
    ELSE "ok"

\* the path _get_out_file returns
_get_out_file(extension) == tracefile \o extension

\* a json_out that returns the path without _get_out_file's checks
json_out_exc_unchecked == "ok"

\* the property json_out, lines 48-50
json_out_exc == _get_out_file_exc(JsonExt)
json_out == _get_out_file(JsonExt)

\* the property result_out, lines 52-54
result_out_exc == _get_out_file_exc(ResultExt)
result_out == _get_out_file(ResultExt)

NoCall ==
    [op |-> "none", tracefile |-> None, kw |-> <<>>, flags |-> <<>>,
     cmd |-> <<>>, ran |-> FALSE, exit |-> "none", output_file |-> None,
     validated |-> None]

NoOutcome == [kind |-> "none", table |-> NoTable]

\* the state after FlexFringe(flexfringe_path, **kwargs)
Init ==
    /\ tracefile = None
    /\ resultfile = None
    /\ kwargs \in CtorKwargs
    /\ fs \in {[p \in FsPaths |-> "missing"],
               [p \in FsPaths |-> IF p = <<"b.csv">> \o ResultExt THEN "dir" ELSE "missing"]}
    /\ csv = [p \in ResultPaths |-> NoFile]
    /\ pc = "idle"
    /\ call = NoCall
    /\ outcome = NoOutcome

(***************************************************************************)
(* The calls.  A call is synchronous: while one runs (pc # "idle") no      *)
(* other starts.                                                           *)
(***************************************************************************)
NewCall(op, t, kw) ==
    [NoCall EXCEPT !.op = op, !.tracefile = t, !.kw = kw,
                   !.flags = _format_kwargs(all_kwargs(kwargs, kw))]

\* the flags of the running call
CallFlags(op, t, kw) == NewCall(op, t, kw).flags

\* fit(tracefile, **kwargs), lines 83-100: up to the call of _run
fit(t, kw) ==
    /\ pc = "idle"
    /\ call' = [NewCall("fit", t, kw) EXCEPT !.cmd = <<t>> \o CallFlags("fit", t, kw)]
    /\ pc' = "fit_run"
    /\ UNCHANGED <<tracefile, resultfile, kwargs, fs, csv, outcome>>

\* fit(tracefile, output_file=, output_format=, **kwargs), lines 112-132
fit_output_file(t, output_file, kw) ==
    /\ pc = "idle"
    /\ call' = [NewCall("fit_as", t, kw) EXCEPT
                   !.cmd = <<t>> \o CallFlags("fit_as", t, kw),
                   !.output_file = output_file]
    /\ pc' = "fit_as_run"
    /\ UNCHANGED <<tracefile, resultfile, kwargs, fs, csv, outcome>>

\* f"--aptafile={...}"
AptaFlag(path) == <<"--aptafile=">> \o path

\* predict(tracefile, **kwargs), lines 161-178: up to the call of _run.  The
\* command evaluates self.json_out, which raises before anything is run.
predict(t, kw) ==
    /\ pc = "idle"
    /\ IF json_out_exc # "ok"
       THEN /\ call' = NewCall("predict", t, kw)
            /\ outcome' = Raise(json_out_exc)
            /\ pc' = "idle"
       ELSE /\ call' = [NewCall("predict", t, kw) EXCEPT
                           !.cmd = <<t, <<"--mode=predict">>, AptaFlag(json_out)>>
                                   \o CallFlags("predict", t, kw)]
            /\ outcome' = outcome
            /\ pc' = "predict_run"
    /\ UNCHANGED <<tracefile, resultfile, kwargs, fs, csv>>

\* apta_file.split('.ff')[0]
TrainingFile(apta_file) == Split(apta_file, ".ff")[1]

\* predict(tracefile, apta_file, **kwargs), lines 182-200: up to the call of _run
predict_apta_file(t, apta_file, kw) ==
    /\ pc = "idle"
    /\ call' = [NewCall("predict2", t, kw) EXCEPT
                   !.cmd = <<t, <<"--mode=predict">>, AptaFlag(apta_file)>>
                           \o CallFlags("predict2", t, kw)]
    /\ tracefile' = TrainingFile(apta_file)
    /\ pc' = "predict_run"
    /\ UNCHANGED <<resultfile, kwargs, fs, csv, outcome>>

\* what writing a regular file at path does to the file system
Written(f, paths) ==
    [p \in DOMAIN f |-> IF p \in paths /\ f[p] # "dir" THEN "file" ELSE f[p]]

\* a _run that gives up on a non-zero exit code
AfterRun_CheckExit(exit) ==
    IF exit # "0" THEN "idle"
    ELSE CASE pc = "fit_run" -> "fit_check"
           [] pc = "fit_as_run" -> "fit_as_check"
           [] pc = "predict_run" -> "predict_parse"

\* how a call goes on when subprocess.run returns, whatever the exit code
AfterRun(exit) ==
    CASE pc = "fit_run" -> "fit_check"
      [] pc = "fit_as_run" -> "fit_as_check"
      [] pc = "predict_run" -> "predict_parse"

\* _run, lines 242-256: subprocess.run blocks until the binary exits; the
\* binary wrote its output files or did not, and the exit code is only logged
_run ==
    /\ pc \in {"fit_run", "fit_as_run", "predict_run"}
    /\ \E exit \in {"0", "1"} :
          /\ call' = [call EXCEPT !.ran = TRUE, !.exit = exit]
          /\ pc' = AfterRun(exit)
    /\ \/ UNCHANGED <<fs, csv>>
       \/ /\ pc \in {"fit_run", "fit_as_run"}
          /\ fs' = Written(fs, {call.tracefile \o DotExt, call.tracefile \o JsonExt})
          /\ csv' = csv
       \/ /\ pc = "fit_as_run"
          /\ call.output_file # None
          /\ fs' = Written(fs, {ModelPath(call.output_file, <<"dot">>)})
          /\ csv' = csv
       \/ /\ pc = "predict_run"
          /\ tracefile \o ResultExt \in ResultPaths
          /\ fs[tracefile \o ResultExt] # "dir"
          /\ fs' = Written(fs, {tracefile \o ResultExt})
          /\ \E f \in SmallFiles : csv' = [csv EXCEPT ![tracefile \o ResultExt] = f]
    /\ UNCHANGED <<tracefile, resultfile, kwargs, outcome>>

\* fit, lines 102-110: record the trace file, then open the outputs
fit_finish ==
    /\ pc = "fit_check"
    /\ tracefile' = call.tracefile
    /\ outcome' =
          IF NotValidFile(Status(call.tracefile \o DotExt))
             \/ NotValidFile(Status(call.tracefile \o JsonExt))
          THEN Raise("RuntimeError") ELSE Return(NoTable)
    /\ pc' = "idle"
    /\ UNCHANGED <<resultfile, kwargs, fs, csv, call>>

\* fit with output_file, lines 134-142
fit_output_file_finish ==
    /\ pc = "fit_as_check"
    /\ tracefile' = call.tracefile
    /\ outcome' =
          IF call.output_file = None THEN Raise("TypeError")
          ELSE IF Status(ModelPath(call.output_file, <<"dot">>)) = "missing"
          THEN Raise("RuntimeError")
          ELSE Return(NoTable)
    /\ pc' = "idle"
    /\ UNCHANGED <<resultfile, kwargs, fs, csv, call>>

\* _parse_flexfringe_result, line 205: self.result_out, that is _get_out_file
ValidateResult ==
    /\ pc = "predict_parse"
    /\ IF result_out_exc # "ok"
       THEN /\ outcome' = Raise(result_out_exc)
            /\ pc' = "idle"
            /\ call' = call
       ELSE /\ call' = [call EXCEPT !.validated = result_out]
            /\ pc' = "predict_read"
            /\ outcome' = outcome
    /\ UNCHANGED <<tracefile, resultfile, kwargs, fs, csv>>

\* _parse_flexfringe_result, lines 205-240: read the validated file, parse it
ReadResult ==
    /\ pc = "predict_read"
    /\ outcome' = _parse_flexfringe_result(csv[call.validated])
    /\ pc' = "idle"
    /\ UNCHANGED <<tracefile, resultfile, kwargs, fs, csv, call>>

\* the properties dot_out, json_out, result_out, lines 44-54
Accessor(name, extension) ==
    /\ pc = "idle"
    /\ call' = [NoCall EXCEPT !.op = name]
    /\ outcome' = IF _get_out_file_exc(extension) # "ok"
                  THEN Raise(_get_out_file_exc(extension)) ELSE Return(NoTable)
    /\ UNCHANGED <<tracefile, resultfile, kwargs, fs, csv, pc>>

Next ==
    \/ \E t \in TracePaths, kw \in CallKwargs : fit(t, kw)
    \/ \E t \in TracePaths, o \in OutputFiles, kw \in CallKwargs : fit_output_file(t, o, kw)
    \/ \E t \in PredictPaths, kw \in CallKwargs : predict(t, kw)
    \/ \E t \in PredictPaths, a \in AptaFiles, kw \in CallKwargs : predict_apta_file(t, a, kw)
    \/ _run
    \/ fit_finish
    \/ fit_output_file_finish
    \/ ValidateResult
    \/ ReadResult
    \/ Accessor("dot_out", DotExt)
    \/ Accessor("json_out", JsonExt)
    \/ Accessor("result_out", ResultExt)

Spec == Init /\ [][Next]_vars

(***************************************************************************)
(* The parser on its own: a predict call whose binary has just exited,     *)
(* with any of the result files of Files (or none) at the result path.     *)
(***************************************************************************)
ParseTrace == <<"a.csv">>

ParseInit ==
    /\ tracefile = ParseTrace
    /\ resultfile = None
    /\ kwargs = <<>>
    /\ \E st \in {"missing", "dir", "file"} :
          /\ fs = [p \in FsPaths |->
                     IF p = ParseTrace \o ResultExt THEN st
                     ELSE IF p = ParseTrace \o JsonExt THEN "file" ELSE "missing"]
          /\ \E f \in (IF st = "file" THEN Files ELSE {NoFile}) :
                csv = [p \in ResultPaths |->
                         IF p = ParseTrace \o ResultExt THEN f ELSE NoFile]
    /\ pc = "predict_parse"
    /\ call = [NoCall EXCEPT !.op = "predict", !.tracefile = <<"test.csv">>,
                 !.cmd = <<<<"test.csv">>, <<"--mode=predict">>,
                           AptaFlag(ParseTrace \o JsonExt)>>,
                 !.ran = TRUE, !.exit = "0"]
    /\ outcome = NoOutcome

ParseNext == ValidateResult \/ ReadResult

ParseSpec == ParseInit /\ [][ParseNext]_vars

(***************************************************************************)
(* Properties of the parser, checked under ParseSpec.                      *)
(***************************************************************************)
\* the file at the result path of the running predict call
InputFile == csv[tracefile \o ResultExt]

\* _parse_flexfringe_result read the validated file and ended
ParseDone ==
    pc = "idle" /\ call.op \in {"predict", "predict2"} /\ call.validated # None

\* _parse_flexfringe_result ended in _get_out_file, before reading anything
ValidationFailed ==
    pc = "idle" /\ call.op \in {"predict", "predict2"} /\ call.ran
    /\ call.validated = None

RowsOf(file) == 1..Len(file.rows)

HeaderHas(file, name) ==
    \E i \in 1..Len(file.header) : Strip(file.header[i], Whitespace) = name

\* the field of row r in the column whose trimmed name is name, as written
RawField(file, r, name) ==
    file.rows[r][CHOOSE i \in 1..Len(file.header) :
                    Strip(file.header[i], Whitespace) = name]

\* the 0-based index of the combined trace column in the header
TracePos(file) ==
    (CHOOSE i \in 1..Len(file.header) :
        Strip(file.header[i], Whitespace) = TraceCol) - 1

\* the texts whose trimmed, quote-stripped form is body (body neither starts
\* nor ends with a blank or a double quote)
Decorated(body) ==
    {lead \o body \o trail :
        lead \in {<<>>, <<" ">>, <<"\"">>, <<" ", "\"">>},
        trail \in {<<>>, <<" ">>, <<"\"">>, <<"\"", " ">>}}

\* row r of the returned table carries the split of the tokens toks
SplitOf(r, toks) ==
    /\ Column(outcome.table, TypeCol)[r] = StrCell(toks[1])
    /\ Column(outcome.table, LengthCol)[r] = StrCell(toks[2])
    /\ Column(outcome.table, TraceCol)[r] = StrListCell(SubSeq(toks, 3, Len(toks)))

\* C1 as stated: for every row whose cleaned trace field is "T N t1 ... tk"
\* the returned row has type T, length N (a string), trace [t1..tk], and k >= 1.
C1_SplitLaw_Original ==
    (ParseDone /\ outcome.kind = "ok") =>
        \A r \in RowsOf(InputFile) : \A toks \in TokenSeqs :
            RawField(InputFile, r, TraceCol) \in Decorated(Join(toks, " ")) =>
                /\ SplitOf(r, toks)
                /\ Len(Column(outcome.table, TraceCol)[r].v) >= 1

\* C1 amended: for every row whose cleaned trace field is "T N t1 ... tk" the
\* returned row has type T, length N (a string, not a number), and trace
\* [t1..tk] in the original order, where k >= 0: the trace may be empty.
C1_SplitLaw ==
    (ParseDone /\ outcome.kind = "ok") =>
        \A r \in RowsOf(InputFile) : \A toks \in TokenSeqs :
            RawField(InputFile, r, TraceCol) \in Decorated(Join(toks, " ")) =>
                SplitOf(r, toks)

\* a parsed file with a well-formed row before a padded, quoted row
\* "pos 2 a b", split into its tokens
C1_Witness ==
    /\ ParseDone /\ outcome.kind = "ok"
    /\ Len(InputFile.rows) = 2
    /\ RawField(InputFile, 2, TraceCol)
          = <<" ", "\"", "pos", " ", "2", " ", "a", " ", "b", "\"">>
    /\ Column(outcome.table, TypeCol)[2] = StrCell(<<"pos">>)
    /\ Column(outcome.table, LengthCol)[2] = StrCell(<<"2">>)
    /\ Column(outcome.table, TraceCol)[2].v = <<<<"a">>, <<"b">>>>

\* the error kind of a failed numeric coercion: what float("x") raises
NumericCoercionError == "ValueError"

\* some score sequence element of row r is not a numeric literal
BadScore(file, r) ==
    LET el == Split(StripBrackets(RawField(file, r, ScoreCol)), ",")
    IN  \E i \in 1..Len(el) : ~IsFloat(el[i])

\* every column of the table has one cell per row of the file
Complete(table, file) ==
    /\ Len(table.columns) = Len(file.header) + 2
    /\ \A i \in 1..Len(table.data) : Len(table.data[i]) = Len(file.rows)

\* C2: the parse is all-or-nothing: either a complete table is returned, or
\* the call fails with the malformed-row error and no table; a non-numeric
\* score element in any row makes the call fail with that error.
C2_AllOrNothing_Original ==
    ParseDone =>
        /\ \/ outcome.kind = "ok" /\ Complete(outcome.table, InputFile)
           \/ outcome.kind = NumericCoercionError /\ outcome.table = NoTable
        /\ (HeaderHas(InputFile, TraceCol)
            /\ \E r \in RowsOf(InputFile) : BadScore(InputFile, r))
              => outcome.kind = NumericCoercionError

\* the part of C2 that the code keeps: a complete table, or an exception and
\* no table
C2_TableOrException ==
    ParseDone =>
        \/ outcome.kind = "ok" /\ Complete(outcome.table, InputFile)
        \/ outcome.kind \in {"ValueError", "IndexError", "KeyError", "AttributeError"}
           /\ outcome.table = NoTable

\* the exceptions that leave _parse_flexfringe_result after the file was read
ParseFailures == {"ValueError", "IndexError", "KeyError", "AttributeError"}

\* C3: when nothing, or no regular file, is at the result path the call fails
\* with the not-found error (RuntimeError), returns no table and reads no
\* file; that error is never the outcome of a parse failure.
C3_NotFound ==
    /\ (pc = "idle" /\ call.op \in {"predict", "predict2"} /\ call.ran
        /\ Status(tracefile \o ResultExt) # "file")
          => /\ outcome.kind = "RuntimeError"
             /\ outcome.kind \notin ParseFailures
             /\ outcome.table = NoTable
             /\ call.validated = None
    /\ pc = "predict_read" => Status(call.validated) = "file"
    /\ ParseDone => outcome.kind \in ParseFailures \cup {"ok"}

\* a call that ended at a directory in place of the result file
C3_Witness ==
    /\ ValidationFailed
    /\ Status(tracefile \o ResultExt) = "dir"
    /\ outcome.kind = "RuntimeError"

\* the trace column of the file is text in every row, so that every row has a
\* cleaned trace field
TraceIsText(file) ==
    /\ HeaderHas(file, TraceCol)
    /\ \A r \in RowsOf(file) : ~IsNA(RawField(file, r, TraceCol))
    /\ \E r \in RowsOf(file) : ~IsFloat(RawField(file, r, TraceCol))

\* the cleaned trace field of row r has fewer than two tokens
ShortTrace(file, r) ==
    Len(Split(Strip(Strip(RawField(file, r, TraceCol), Whitespace), {"\""}), " ")) < 2

\* C4: a row whose cleaned trace field has fewer than 2 tokens makes the call
\* fail with the same error kind as a numeric-coercion failure, and no table
\* is returned.
C4_ShortTrace_Original ==
    (ParseDone /\ TraceIsText(InputFile)
     /\ \E r \in RowsOf(InputFile) : ShortTrace(InputFile, r))
        => outcome.kind = NumericCoercionError /\ outcome.table = NoTable

\* the trimmed header with the name at 0-based index p replaced by the three
\* derived names
SplitAt(header, p) ==
    LET h == [i \in 1..Len(header) |-> Strip(header[i], Whitespace)]
    IN  SubSeq(h, 1, p) \o <<TypeCol, LengthCol, TraceCol>> \o SubSeq(h, p + 2, Len(h))

\* C5: with the combined column at index p of the header (any p), the table
\* has the derived columns at p, p+1, p+2 and the other columns in their order.
C5_ColumnOrder_Original ==
    (ParseDone /\ outcome.kind = "ok") =>
        outcome.table.columns = SplitAt(InputFile.header, TracePos(InputFile))

\* the number of leading chunks of t that are c
LeadRun(t, c) ==
    CHOOSE n \in 0..Len(t) :
        (\A k \in 1..n : t[k] = c) /\ (n = Len(t) \/ t[n + 1] # c)

\* the number of trailing chunks of t that are c
TrailRun(t, c) ==
    CHOOSE n \in 0..Len(t) :
        (\A k \in 1..n : t[Len(t) + 1 - k] = c) /\ (n = Len(t) \/ t[Len(t) - n] # c)

\* t without its leading and trailing run of c
WithoutRuns(t, c) ==
    IF LeadRun(t, c) = Len(t) THEN <<>>
    ELSE SubSeq(t, LeadRun(t, c) + 1, Len(t) - TrailRun(t, c))

\* t without one leading "[" and one trailing "]", when it has them
WithoutOnePair(t) ==
    LET a == IF t # <<>> /\ t[1] = "[" THEN Tail(t) ELSE t
    IN  IF a # <<>> /\ a[Len(a)] = "]" THEN SubSeq(a, 1, Len(a) - 1) ELSE a

\* the field without its leading and trailing blanks
Trimmed(field) == WithoutRuns(field, " ")

\* C6 as stated: bracket handling removes at most one leading "[" and at most
\* one trailing "]" from the trimmed field before splitting on commas.
C6_Brackets_Original ==
    (ParseDone /\ outcome.kind = "ok") =>
        \A r \in RowsOf(InputFile) :
            Column(outcome.table, StateCol)[r]
                = StrListCell(Split(WithoutOnePair(
                      Trimmed(RawField(InputFile, r, StateCol))), ","))

\* C6 amended: in a successful parse the state (and score) sequence is the
\* comma-split of the trimmed field without ALL its leading and trailing "["
\* and then without ALL its leading and trailing "]": "[[0,1]]" and "]0,1["
\* both give ["0","1"]; a field with no bracket at its ends is split as-is and
\* brackets inside the field are kept ("[0],[1]" gives ["0]","[1"]).
C6_Brackets ==
    (ParseDone /\ outcome.kind = "ok") =>
        \A r \in RowsOf(InputFile) :
            LET st == RawField(InputFile, r, StateCol)
                sc == RawField(InputFile, r, ScoreCol)
                el == Split(WithoutRuns(WithoutRuns(Trimmed(sc), "["), "]"), ",")
                out == Column(outcome.table, StateCol)[r]
            IN  /\ out = StrListCell(
                        Split(WithoutRuns(WithoutRuns(Trimmed(st), "["), "]"), ","))
                /\ Column(outcome.table, ScoreCol)[r]
                      = FloatListCell([i \in 1..Len(el) |-> Float(el[i])])
                /\ st = <<" ", "[", "[", "0", ",", "1", "]", "]">>
                      => out.v = <<<<"0">>, <<"1">>>>
                /\ st = <<"]", "0", ",", "1", "[">> => out.v = <<<<"0">>, <<"1">>>>
                /\ st = <<" ", "0", ",", "1">> => out.v = <<<<"0">>, <<"1">>>>
                /\ st = <<"[", "0", "]", ",", "[", "1", "]">>
                      => out.v = <<<<"0", "]">>, <<"[", "1">>>>

\* a parsed file with the state sequence field "[[0,1]]", parsed to ["0","1"]
C6_Witness ==
    /\ ParseDone /\ outcome.kind = "ok"
    /\ \E r \in RowsOf(InputFile) :
          /\ RawField(InputFile, r, StateCol)
                = <<" ", "[", "[", "0", ",", "1", "]", "]">>
          /\ Column(outcome.table, StateCol)[r].v = <<<<"0">>, <<"1">>>>

RequiredCols == {TraceCol, StateCol, ScoreCol, SumCol, MeanCol, MinCol}

\* C7: a file of only the header line, with the 6 required columns, parses to
\* a table of zero rows whose columns are the derived type / length / trace
\* columns and the other columns of the header; it is not an error.
C7_HeaderOnly ==
    (ParseDone /\ InputFile.rows = <<>>
     /\ \A c \in RequiredCols : HeaderHas(InputFile, c))
        => /\ outcome.kind = "ok"
           /\ \A i \in 1..Len(outcome.table.data) : outcome.table.data[i] = <<>>
           /\ Len(outcome.table.columns) = Len(InputFile.header) + 2
           /\ {outcome.table.columns[i] : i \in 1..Len(outcome.table.columns)}
                 = ({Strip(InputFile.header[i], Whitespace) :
                        i \in 1..Len(InputFile.header)} \ {TraceCol})
                   \cup {TypeCol, LengthCol, TraceCol}

\* the parse of a header line of exactly the 6 required columns has ended
C7_Witness ==
    /\ ParseDone /\ InputFile.rows = <<>>
    /\ Len(InputFile.header) = Cardinality(RequiredCols)
    /\ \A c \in RequiredCols : HeaderHas(InputFile, c)
    /\ outcome.kind = "ok"
    /\ Len(outcome.table.columns) = Cardinality(RequiredCols) + 2

(***************************************************************************)
(* Properties of the calls, checked under Spec.                            *)
(***************************************************************************)
PredictOps == {"predict", "predict2"}

\* C8: in every predict call the process has run to completion before the
\* parser is invoked; the parser reads the result file only after it was
\* validated as a regular file at <recorded trace path>.ff.final.json.result.csv;
\* the exit code never causes a failure: once the process has run, the call
\* fails with RuntimeError exactly when no regular file is at that path, and
\* otherwise ends as the parse of that file ends.
C8_RunThenValidateThenParse ==
    /\ pc \in {"predict_parse", "predict_read"} => call.ran /\ call.exit \in {"0", "1"}
    /\ pc = "predict_read" =>
          /\ call.validated = tracefile \o ResultExt
          /\ Status(call.validated) = "file"
    /\ ParseDone => call.validated = tracefile \o ResultExt
    /\ (pc = "idle" /\ call.op \in PredictOps /\ call.ran) =>
          outcome = IF Status(tracefile \o ResultExt) = "file"
                    THEN _parse_flexfringe_result(csv[tracefile \o ResultExt])
                    ELSE Raise("RuntimeError")

\* a predict call whose process exited with code 1 and that returned a table
\* with a row
C8_Witness ==
    /\ pc = "idle" /\ call.op = "predict" /\ call.ran /\ call.exit = "1"
    /\ outcome.kind = "ok"
    /\ Len(Column(outcome.table, TypeCol)) = 1

\* C9: while no fit or two-argument predict has recorded a trace path,
\* predict(tracefile) and the accessors dot_out, json_out, result_out fail
\* with RuntimeError before the process is invoked, and the recorded trace
\* path stays unset; once a path is recorded, the apta file passed to the
\* process by predict(tracefile) is that path + ".ff.final.json".
C9_PredictNeedsFit ==
    /\ [][(tracefile = None /\ pc = "idle"
           /\ call'.op \in {"predict", "dot_out", "json_out", "result_out"})
            => /\ outcome'.kind = "RuntimeError"
               /\ ~call'.ran
               /\ call'.cmd = <<>>
               /\ pc' = "idle"
               /\ tracefile' = None
               /\ fs' = fs]_vars
    /\ [](pc = "predict_run" /\ call.op = "predict" =>
            /\ tracefile # None
            /\ call.cmd[3] = <<"--aptafile=">> \o tracefile \o JsonExt)

\* predict(tracefile) has failed on an instance that never recorded a path
C9_Witness ==
    /\ tracefile = None /\ pc = "idle" /\ call.op = "predict"
    /\ outcome.kind = "RuntimeError" /\ ~call.ran

\* the flags of call c: one "--key=value" per distinct key of the constructor's
\* and the call's keyword arguments, the call's value where both have the key
OneFlagPerKey(c) ==
    LET keys == Keys(kwargs) \cup Keys(c.kw)
    IN  /\ Len(c.flags) = Cardinality(keys)
        /\ \A k \in keys :
              /\ Cardinality({i \in 1..Len(c.flags) : c.flags[i][2] = k}) = 1
              /\ \E i \in 1..Len(c.flags) :
                    c.flags[i] = <<"--", k, "=",
                                   IF k \in Keys(c.kw) THEN DictGet(c.kw, k)
                                   ELSE DictGet(kwargs, k)>>

\* C10: the flags of a fit or predict call hold exactly one "--key=value" per
\* distinct key, the call's value winning over the constructor's; they are
\* what is passed to the process; and no call changes the stored constructor
\* kwargs, so that an override never shows in a later call.
C10_KwargsOverride ==
    /\ [](call.op \in {"fit", "fit_as"} \cup PredictOps => OneFlagPerKey(call))
    /\ [](call.ran =>
            SubSeq(call.cmd, Len(call.cmd) - Len(call.flags) + 1, Len(call.cmd))
                = call.flags)
    /\ [][kwargs' = kwargs]_vars

\* a call that overrode the constructor's ini and kept its mode has run
C10_Witness ==
    /\ call.ran
    /\ kwargs = <<<<"ini", "x.ini">>, <<"mode", "batch">>>>
    /\ call.kw = <<<<"ini", "y.ini">>>>
    /\ call.flags = <<<<"--", "ini", "=", "y.ini">>, <<"--", "mode", "=", "batch">>>>

====
